---- MODULE Spec2Model ----
(***************************************************************************)
(* A model of webstruct/wapiti.py: the Wapiti template compiler            *)
(* (prepare_wapiti_template), the feature vocabulary                       *)
(* (WapitiFeatureEncoder), the training orchestrator (WapitiCRF.fit) and   *)
(* the label realignment of WapitiChunker.transform.                       *)
(*                                                                         *)
(* Text is a sequence of one-character strings.  A Python value that may   *)
(* be None is a sequence of length at most one: <<>> is None and <<v>> is  *)
(* the value v.                                                            *)
(***************************************************************************)
EXTENDS Integers, Sequences, FiniteSets, TLC

VARIABLES
    phase,            \* which component the behaviour is about, and where it is
    template,         \* prepare_wapiti_template: the template argument
    vocabulary,       \* prepare_wapiti_template: the vocabulary argument
    compiled,         \* prepare_wapiti_template: its outcome
    move_to_front,    \* WapitiFeatureEncoder.move_to_front
    feature_names_,   \* WapitiFeatureEncoder.feature_names_
    vocabulary_,      \* WapitiFeatureEncoder.vocabulary_
    ret,              \* WapitiFeatureEncoder: the last call and what it returned
    observed,         \* the feature names the encoder was shown since construction
    args,             \* WapitiCRF.fit: its arguments and the object's configuration
    pc,               \* WapitiCRF.fit: the statement it is at
    files,            \* WapitiCRF.fit: the temporary files that exist on disk
    created,          \* WapitiCRF.fit: the temporary files this call created
    to_unlink,        \* WapitiCRF.fit: the local list to_unlink
    dev_fn,           \* WapitiCRF.fit: the local dev_fn
    out_dev,          \* WapitiCRF.fit: the local out_dev
    exc,              \* WapitiCRF.fit: the exception in flight or raised
    feature_encoder,  \* WapitiChunker.feature_encoder: the kind of encoder passed in
    tokens,           \* WapitiChunker.transform: the tokens of the feature dicts
    tagged,           \* WapitiChunker.transform: the text model.label_sequence returns
    chunks            \* WapitiChunker.transform: its outcome

vars == <<phase, template, vocabulary, compiled, move_to_front, feature_names_,
          vocabulary_, ret, observed, args, pc, files, created, to_unlink,
          dev_fn, out_dev, exc, feature_encoder, tokens, tagged, chunks>>

tplVars == <<template, vocabulary, compiled>>
encVars == <<move_to_front, feature_names_, vocabulary_, ret, observed>>
crfVars == <<args, pc, files, created, to_unlink, dev_fn, out_dev, exc>>
chkVars == <<feature_encoder, tokens, tagged, chunks>>

(***************************************************************************)
(* Bounds of the model.                                                    *)
(***************************************************************************)
MaxPieces == 4      \* pieces a template is put together from
MaxBatches == 2     \* feature-dict lists in the X of one fit / partial_fit
MaxOutLen == 5      \* characters of the tagger's output
MaxTokens == 3      \* tokens of a document

(***************************************************************************)
(* Python values.                                                          *)
(***************************************************************************)
None == <<>>
Some(v) == <<v>>
IsNone(o) == o = <<>>
Val(o) == o[1]

Range(s) == {s[i] : i \in 1..Len(s)}

Digits == {"0", "1", "2", "3", "4", "5", "6", "7", "8", "9"}
Spaces == {" ", "\t"}

\* str.isdigit(): non-empty and every character a digit
IsDigit(s) == Len(s) > 0 /\ \A i \in 1..Len(s) : s[i] \in Digits

DigitChar(d) ==
    CASE d = 0 -> "0" [] d = 1 -> "1" [] d = 2 -> "2" [] d = 3 -> "3"
      [] d = 4 -> "4" [] d = 5 -> "5" [] d = 6 -> "6" [] d = 7 -> "7"
      [] d = 8 -> "8" [] d = 9 -> "9"

\* str(n) of a non-negative integer, as str.format renders it
RECURSIVE IntToStr(_)
IntToStr(n) == IF n < 10 THEN <<DigitChar(n)>>
               ELSE IntToStr(n \div 10) \o <<DigitChar(n % 10)>>

\* sep.join(lines)
RECURSIVE Join(_, _)
Join(lines, sep) ==
    IF Len(lines) = 0 THEN <<>>
    ELSE IF Len(lines) = 1 THEN lines[1]
    ELSE lines[1] \o sep \o Join(Tail(lines), sep)

\* str.strip(): whitespace removed at both ends
RECURSIVE LStrip(_)
LStrip(s) == IF Len(s) > 0 /\ s[1] \in Spaces \cup {"\n", "\r"} THEN LStrip(Tail(s)) ELSE s

RECURSIVE RStrip(_)
RStrip(s) == IF Len(s) > 0 /\ s[Len(s)] \in Spaces \cup {"\n", "\r"}
             THEN RStrip(SubSeq(s, 1, Len(s) - 1)) ELSE s

Strip(s) == RStrip(LStrip(s))

\* str.splitlines(): "\n", "\r" and "\r\n" end a line; the terminators are
\* dropped and a terminator at the end of the text opens no further line
RECURSIVE SplitLinesFrom(_, _, _)
SplitLinesFrom(s, i, cur) ==
    IF i > Len(s) THEN (IF cur = <<>> THEN <<>> ELSE <<cur>>)
    ELSE IF s[i] = "\r" /\ i < Len(s) /\ s[i + 1] = "\n"
         THEN <<cur>> \o SplitLinesFrom(s, i + 2, <<>>)
    ELSE IF s[i] \in {"\n", "\r"}
         THEN <<cur>> \o SplitLinesFrom(s, i + 1, <<>>)
    ELSE SplitLinesFrom(s, i + 1, Append(cur, s[i]))

SplitLines(s) == SplitLinesFrom(s, 1, <<>>)

(***************************************************************************)
(* WAPITI_MACRO_PATTERN and prepare_wapiti_template.                       *)
(***************************************************************************)
Sigils == {"x", "X", "t", "T", "m", "M"}

\* the first position from i on whose character is not in cls
RECURSIVE SkipWhile(_, _, _)
SkipWhile(s, i, cls) ==
    IF i <= Len(s) /\ s[i] \in cls THEN SkipWhile(s, i + 1, cls) ELSE i

\* the first position from i on whose character ends a column token:
\* "]", "," or whitespace
RECURSIVE SkipColumn(_, _)
SkipColumn(s, i) ==
    IF i <= Len(s) /\ s[i] \notin ({"]", ","} \cup Spaces \cup {"\n", "\r"})
    THEN SkipColumn(s, i + 1) ELSE i

NoMatch == [matched |-> FALSE, macro |-> <<>>, offset |-> <<>>, column |-> <<>>,
            rest |-> <<>>, end |-> 0]

\* WAPITI_MACRO_PATTERN matched at position i of s.  Every quantifier of the
\* pattern is followed by a character class disjoint from its own, so the
\* greedy match is the only one.
MacroMatchAt(s, i) ==
    IF ~(i + 2 <= Len(s) /\ s[i] = "%" /\ s[i + 1] \in Sigils /\ s[i + 2] = "[")
    THEN NoMatch
    ELSE LET o0 == SkipWhile(s, i + 3, Spaces)
             o1 == IF o0 <= Len(s) /\ s[o0] = "-" THEN o0 + 1 ELSE o0
             o2 == SkipWhile(s, o1, Digits)
             k  == SkipWhile(s, o2, Spaces)
             c1 == SkipWhile(s, k + 1, Spaces)
             c2 == SkipColumn(s, c1)
             r  == SkipWhile(s, c2, Spaces)
         IN  IF o2 = o1 THEN NoMatch
             ELSE IF ~(k <= Len(s) /\ s[k] = ",") THEN NoMatch
             ELSE IF c2 = c1 THEN NoMatch
             ELSE IF ~(r <= Len(s) /\ s[r] \in {"]", ","}) THEN NoMatch
             ELSE [matched |-> TRUE,
                   macro   |-> SubSeq(s, i, i + 1),
                   offset  |-> SubSeq(s, o0, o2 - 1),
                   column  |-> SubSeq(s, c1, c2 - 1),
                   rest    |-> <<s[r]>>,
                   end     |-> r]

\* repl with vocabulary.get(column, column) in place of vocabulary[column]:
\* an unknown name stays in the macro
ReplKeepsUnknown(m, vocab) ==
    LET column == IF IsDigit(m.column) \/ m.column \notin DOMAIN vocab
                  THEN m.column ELSE IntToStr(vocab[m.column])
    IN  [ok |-> TRUE, text |-> m.macro \o <<"[">> \o m.offset \o <<",">> \o column \o m.rest]

\* repl(m): "{macro}[{offset},{column}{rest}", the column looked up in the
\* vocabulary unless it is a number; [ok |-> FALSE] is the KeyError of
\* vocabulary[column]
Repl(m, vocab) ==
    IF ~IsDigit(m.column) /\ m.column \notin DOMAIN vocab
    THEN [ok |-> FALSE, text |-> <<>>]
    ELSE LET column == IF IsDigit(m.column) THEN m.column
                       ELSE IntToStr(vocab[m.column])
         IN  [ok |-> TRUE,
              text |-> m.macro \o <<"[">> \o m.offset \o <<",">> \o column \o m.rest]

\* WAPITI_MACRO_PATTERN.sub(repl, line): the non-overlapping matches, leftmost
\* first.  [ok |-> FALSE] when repl raised.
RECURSIVE MacroSubFrom(_, _, _)
MacroSubFrom(s, i, vocab) ==
    IF i > Len(s) THEN [ok |-> TRUE, text |-> <<>>]
    ELSE LET m == MacroMatchAt(s, i)
         IN  IF ~m.matched
             THEN LET tl == MacroSubFrom(s, i + 1, vocab)
                  IN  [ok |-> tl.ok, text |-> IF tl.ok THEN <<s[i]>> \o tl.text ELSE <<>>]
             ELSE LET r  == Repl(m, vocab)
                      tl == MacroSubFrom(s, m.end + 1, vocab)
                  IN  [ok |-> r.ok /\ tl.ok,
                       text |-> IF r.ok /\ tl.ok THEN r.text \o tl.text ELSE <<>>]

MacroSub(line, vocab) == MacroSubFrom(line, 1, vocab)

\* line.startswith('#'), the strip() forgotten
LineIsCommentNoStrip(line) == Len(line) > 0 /\ line[1] = "#"

_wapiti_line_is_comment(line) ==
    LET s == Strip(line) IN Len(s) > 0 /\ s[1] = "#"

CompileLine(line, vocab) ==
    IF _wapiti_line_is_comment(line) THEN [ok |-> TRUE, text |-> line]
    ELSE MacroSub(line, vocab)

\* prepare_wapiti_template(template, vocabulary): the compiled text, or the
\* KeyError of the first line whose substitution raised
prepare_wapiti_template(tpl, vocab) ==
    LET lines == SplitLines(tpl)
        out   == [i \in 1..Len(lines) |-> CompileLine(lines[i], vocab)]
    IN  IF \E i \in 1..Len(lines) : ~out[i].ok
        THEN [ok |-> FALSE, exc |-> "KeyError", text |-> <<>>]
        ELSE [ok |-> TRUE, exc |-> "", text |-> Join([i \in 1..Len(lines) |-> out[i].text], <<"\n">>)]

(***************************************************************************)
(* The template compiler on its own: prepare_wapiti_template applied to a  *)
(* template and a vocabulary.                                              *)
(***************************************************************************)
NameA == <<"a">>
NameB == <<"b">>
NameC == <<"c">>
Names == {NameA, NameB, NameC}

\* the pieces templates are put together from
PieceKnown     == <<"%", "x", "[", "-", "1", ",", " ", "a", "]">>       \* %x[-1, a]
PieceUnknown   == <<"%", "m", "[", " ", "0", " ", ",", "z", " ", ",">>  \* %m[ 0 ,z ,
PieceNumber    == <<"%", "X", "[", "0", ",", "7", "]">>                 \* %X[0,7]
PieceSplitName == <<"%", "t", "[", "0", ",", "a", " ", "b", "]">>       \* %t[0,a b]
PieceText      == <<"u", ":">>
PieceHash      == <<"#">>
PieceSpace     == <<" ">>
PieceLF        == <<"\n">>
PieceCRLF      == <<"\r", "\n">>

Pieces == {PieceKnown, PieceUnknown, PieceNumber, PieceSplitName, PieceText,
           PieceHash, PieceSpace, PieceLF, PieceCRLF}

RECURSIVE Flatten(_)
Flatten(ps) == IF Len(ps) = 0 THEN <<>> ELSE Head(ps) \o Flatten(Tail(ps))

Templates == {Flatten(ps) : ps \in UNION {[1..n -> Pieces] : n \in 0..MaxPieces}}

\* {'a': 0, 'b': 1} and a vocabulary with a two-digit column
Vocabularies == {(NameA :> 0) @@ (NameB :> 1), (NameA :> 12) @@ (NameC :> 3)}

NotCompiled == [done |-> FALSE, ok |-> FALSE, exc |-> "", text |-> <<>>]

EncIdle == /\ move_to_front = <<>>
           /\ feature_names_ = None
           /\ vocabulary_ = None
           /\ ret = [op |-> "idle", ok |-> TRUE, exc |-> "", value |-> <<>>]
           /\ observed = {}

CrfIdle == /\ args = <<>>
           /\ pc = "idle"
           /\ files = {}
           /\ created = {}
           /\ to_unlink = <<>>
           /\ dev_fn = None
           /\ out_dev = None
           /\ exc = ""

TplIdle == /\ template = <<>>
           /\ vocabulary = <<>>
           /\ compiled = NotCompiled

NotTransformed == [done |-> FALSE, ok |-> FALSE, exc |-> "", pairs |-> <<>>]

ChkIdle == /\ feature_encoder = ""
           /\ tokens = <<>>
           /\ tagged = <<>>
           /\ chunks = NotTransformed

InitTpl == /\ phase = "template"
           /\ template \in Templates
           /\ vocabulary \in Vocabularies
           /\ compiled = NotCompiled
           /\ EncIdle /\ CrfIdle /\ ChkIdle

Compile == /\ phase = "template"
           /\ ~compiled.done
           /\ LET r == prepare_wapiti_template(template, vocabulary)
              IN  compiled' = [done |-> TRUE, ok |-> r.ok, exc |-> r.exc, text |-> r.text]
           /\ UNCHANGED <<phase, template, vocabulary, encVars, crfVars, chkVars>>

NextTpl == Compile

SpecTpl == InitTpl /\ [][NextTpl]_vars

(***************************************************************************)
(* Properties of the template compiler (checked under SpecTpl).            *)
(***************************************************************************)
InputLines == SplitLines(template)

\* the first character of the line that is not whitespace is the comment marker
StartsWithHash(line) ==
    \E i \in 1..Len(line) : /\ line[i] = "#"
                            /\ \A j \in 1..(i - 1) : line[j] \in Spaces

\* the positions of the macros of a line: the matches of the pattern, leftmost
\* first, none inside another
RECURSIVE MacroStarts(_, _)
MacroStarts(line, i) ==
    IF i > Len(line) THEN {}
    ELSE IF MacroMatchAt(line, i).matched
         THEN {i} \cup MacroStarts(line, MacroMatchAt(line, i).end + 1)
    ELSE MacroStarts(line, i + 1)

\* a macro of the line names a column that is no number and no key of the
\* vocabulary
HasUnknownMacro(line) ==
    \E i \in MacroStarts(line, 1) :
        LET m == MacroMatchAt(line, i)
        IN  ~IsDigit(m.column) /\ m.column \notin DOMAIN vocabulary

HasMacro(line) == MacroStarts(line, 1) # {}

\* the line terminators of a text, in order
RECURSIVE Terminators(_)
Terminators(s) ==
    IF Len(s) = 0 THEN <<>>
    ELSE IF Len(s) >= 2 /\ s[1] = "\r" /\ s[2] = "\n"
         THEN << <<"\r", "\n">> >> \o Terminators(SubSeq(s, 3, Len(s)))
    ELSE IF s[1] \in {"\n", "\r"} THEN << <<s[1]>> >> \o Terminators(Tail(s))
    ELSE Terminators(Tail(s))

\* C6: whenever some macro on a non-comment line names a column that is not a
\* number and not in the vocabulary, prepare_wapiti_template raises and
\* returns no text.
C6_UnknownNameFails ==
    (/\ compiled.done
     /\ \E i \in 1..Len(InputLines) :
            ~StartsWithHash(InputLines[i]) /\ HasUnknownMacro(InputLines[i]))
    => (~compiled.ok /\ compiled.exc = "KeyError" /\ compiled.text = <<>>)

\* a comment line, then a line whose macro names an unknown column: the call
\* has raised
C6_Witness ==
    /\ compiled.done
    /\ ~compiled.ok
    /\ Len(InputLines) = 2
    /\ StartsWithHash(InputLines[1])
    /\ ~StartsWithHash(InputLines[2]) /\ HasUnknownMacro(InputLines[2])

\* C7: every comment line of the template is in the output, at its place and
\* as it was, and the compilation fails only when a line that is not a
\* comment has a macro with an unknown name.
C7_CommentImmunity ==
    compiled.done =>
        /\ compiled.ok =>
              \A i \in 1..Len(InputLines) :
                  StartsWithHash(InputLines[i]) =>
                      /\ i <= Len(SplitLines(compiled.text))
                      /\ SplitLines(compiled.text)[i] = InputLines[i]
        /\ ~compiled.ok =>
              \E i \in 1..Len(InputLines) :
                  ~StartsWithHash(InputLines[i]) /\ HasUnknownMacro(InputLines[i])

\* an indented comment line with a macro naming an unknown column, and the
\* call returned
C7_Witness ==
    /\ compiled.done
    /\ compiled.ok
    /\ \E i \in 1..Len(InputLines) :
           /\ StartsWithHash(InputLines[i])
           /\ InputLines[i][1] # "#"
           /\ HasUnknownMacro(InputLines[i])

\* C8: the output has the line terminators of the input, the trailing one
\* included, and a template without any macro is returned unchanged.
C8_OnlyMacrosChange ==
    (compiled.done /\ compiled.ok) =>
        /\ Terminators(compiled.text) = Terminators(template)
        /\ (\A i \in 1..Len(InputLines) : ~HasMacro(InputLines[i]))
               => compiled.text = template

(***************************************************************************)
(* WapitiFeatureEncoder.                                                   *)
(***************************************************************************)
\* a feature dict with the keys S; the value of feature n is the text "v" n
DictOf(S) == [n \in S |-> <<"v">> \o n]

\* the lists of feature dicts (one document each) the model draws from
FeatureDictLists ==
    {<<>>} \cup {<<DictOf(S)>> : S \in SUBSET Names}
           \cup {<<DictOf({NameA, NameB}), DictOf({NameC})>>,
                 <<DictOf({NameB}), DictOf({NameB, NameC})>>}

\* the X of fit, partial_fit and transform: a list of lists of feature dicts
Batches == UNION {[1..n -> FeatureDictLists] : n \in 0..MaxBatches}

\* utils.get_combined_keys: the keys of all the dicts of a list
get_combined_keys(feature_dicts) ==
    UNION {DOMAIN feature_dicts[i] : i \in 1..Len(feature_dicts)}

\* utils.tostr of dct.get(key): the text of the value, "None" for a missing key
tostr(v) == IF IsNone(v) THEN <<"N", "o", "n", "e">> ELSE Val(v)

DictGet(dct, key) == IF key \in DOMAIN dct THEN Some(dct[key]) ELSE None

\* the loop of partial_fit: keys = (keys | get_combined_keys(d)) - move_to_front
RECURSIVE FoldKeys(_, _, _)
FoldKeys(keys, X, front) ==
    IF Len(X) = 0 THEN keys
    ELSE FoldKeys((keys \cup get_combined_keys(Head(X))) \ front, Tail(X), front)

\* tuple(keys): the elements of a set in one of its iteration orders
Orderings(S) == {s \in [1..Cardinality(S) -> S] : Range(s) = S}

\* dict((f, i) for i, f in enumerate(names)): a later item replaces an earlier
\* one with the same key
MakeVocabulary(names) ==
    [f \in Range(names) |->
        (CHOOSE i \in 1..Len(names) :
            names[i] = f /\ \A j \in (i + 1)..Len(names) : names[j] # f) - 1]

\* the names all the dicts of X have
KeysOfX(X) == UNION {get_combined_keys(X[i]) : i \in 1..Len(X)}

\* the body of partial_fit, for self.feature_names_ = prev before the call
partial_fit(prev, X) ==
    LET keys0 == IF IsNone(prev) THEN {} ELSE Range(Val(prev))
        keys  == FoldKeys(keys0, X, Range(move_to_front))
    IN  \E order \in Orderings(keys) :
            /\ feature_names_' = Some(move_to_front \o order)
            /\ vocabulary_' = Some(MakeVocabulary(move_to_front \o order))
            /\ UNCHANGED move_to_front

\* fit(X) is partial_fit(X)
EncFit == /\ phase = "encoder"
          /\ \E X \in Batches :
                 /\ partial_fit(feature_names_, X)
                 /\ observed' = observed \cup KeysOfX(X)
          /\ ret' = [op |-> "fit", ok |-> TRUE, exc |-> "", value |-> <<>>]
          /\ UNCHANGED <<phase, tplVars, crfVars, chkVars>>

EncPartialFit == /\ phase = "encoder"
                 /\ \E X \in Batches :
                        /\ partial_fit(feature_names_, X)
                        /\ observed' = observed \cup KeysOfX(X)
                 /\ ret' = [op |-> "partial_fit", ok |-> TRUE, exc |-> "", value |-> <<>>]
                 /\ UNCHANGED <<phase, tplVars, crfVars, chkVars>>

\* reset(): self.feature_names_ = None
EncReset == /\ phase = "encoder"
            /\ feature_names_' = None
            /\ ret' = [op |-> "reset", ok |-> TRUE, exc |-> "", value |-> <<>>]
            /\ observed' = {}
            /\ UNCHANGED <<move_to_front, vocabulary_>>
            /\ UNCHANGED <<phase, tplVars, crfVars, chkVars>>

\* transform_single: one line per dict, the values of feature_names_ joined
\* by a space
transform_single(feature_dicts, names) ==
    [i \in 1..Len(feature_dicts) |->
        Join([k \in 1..Len(names) |-> tostr(DictGet(feature_dicts[i], names[k]))],
             <<" ">>)]

\* transform(X); iterating feature_names_ = None raises TypeError as soon as
\* there is a dict to write a line for
transform(X) ==
    IF IsNone(feature_names_)
    THEN IF \E i \in 1..Len(X) : Len(X[i]) > 0
         THEN [ok |-> FALSE, exc |-> "TypeError", value |-> <<>>]
         ELSE [ok |-> TRUE, exc |-> "", value |-> [i \in 1..Len(X) |-> <<>>]]
    ELSE [ok |-> TRUE, exc |-> "",
          value |-> [i \in 1..Len(X) |-> transform_single(X[i], Val(feature_names_))]]

\* the documents transform is called with
TransformInputs == {<<>>, << <<DictOf({NameA, NameC})>> >>,
                    << <<DictOf(Names), DictOf({NameB})>> >>}

EncTransform ==
    /\ phase = "encoder"
    /\ \E X \in TransformInputs :
           LET r == transform(X)
           IN  ret' = [op |-> "transform", ok |-> r.ok, exc |-> r.exc, value |-> r.value]
    /\ UNCHANGED <<move_to_front, feature_names_, vocabulary_, observed>>
    /\ UNCHANGED <<phase, tplVars, crfVars, chkVars>>

\* the template "%x[0,<name>]"
MacroOf(name) == <<"%", "x", "[", "0", ",">> \o name \o <<"]">>

\* the templates prepare_template is called with
EncTemplates == {MacroOf(n) : n \in Names} \cup {<<"#", " ">> \o MacroOf(NameC)}

\* prepare_template(template): prepare_wapiti_template(template, self.vocabulary_);
\* subscripting vocabulary_ = None raises TypeError where a dict raises KeyError
prepare_template(tpl) ==
    IF IsNone(vocabulary_)
    THEN LET r == prepare_wapiti_template(tpl, <<>>)
         IN  [ok |-> r.ok, exc |-> IF r.ok THEN "" ELSE "TypeError", text |-> r.text]
    ELSE prepare_wapiti_template(tpl, Val(vocabulary_))

EncPrepareTemplate ==
    /\ phase = "encoder"
    /\ \E tpl \in EncTemplates :
           LET r == prepare_template(tpl)
           IN  ret' = [op |-> "prepare_template", ok |-> r.ok, exc |-> r.exc,
                       value |-> <<tpl, r.text>>]
    /\ UNCHANGED <<move_to_front, feature_names_, vocabulary_, observed>>
    /\ UNCHANGED <<phase, tplVars, crfVars, chkVars>>

\* WapitiFeatureEncoder(move_to_front): nothing learned yet
InitEnc == /\ phase = "encoder"
           /\ move_to_front \in {<<>>, <<NameA>>, <<NameA, NameB>>, <<NameB, NameA>>}
           /\ feature_names_ = None
           /\ vocabulary_ = None
           /\ ret = [op |-> "__init__", ok |-> TRUE, exc |-> "", value |-> <<>>]
           /\ observed = {}
           /\ TplIdle /\ CrfIdle /\ ChkIdle

NextEnc == EncFit \/ EncPartialFit \/ EncReset \/ EncTransform \/ EncPrepareTemplate

SpecEnc == InitEnc /\ [][NextEnc]_vars

(***************************************************************************)
(* Properties of the encoder (checked under SpecEnc).                      *)
(***************************************************************************)
NoDuplicates(names) ==
    \A i, j \in 1..Len(names) : names[i] = names[j] => i = j

\* C1: after fit / partial_fit, feature_names_ is move_to_front followed by
\* the other observed names, and no name occurs in it twice.
C1_FrontThenObservedOnce ==
    ~IsNone(feature_names_) =>
        LET names == Val(feature_names_)
            n     == Len(move_to_front)
        IN  /\ Len(names) >= n
            /\ SubSeq(names, 1, n) = move_to_front
            /\ Range(SubSeq(names, n + 1, Len(names))) = observed \ Range(move_to_front)
            /\ NoDuplicates(names)

\* C3: reset() leaves feature_names_ and vocabulary_ both unfitted, and
\* prepare_template between reset() and the next fit resolves no name.
C3_ResetClearsAll ==
    /\ ret.op = "reset" => (IsNone(feature_names_) /\ IsNone(vocabulary_))
    /\ (ret.op = "prepare_template" /\ IsNone(feature_names_) /\ ret.ok)
           => ret.value[2] = ret.value[1]

\* C5: with two distinct front names and further names observed, the
\* vocabulary maps the first front name to 0 and the second to 1.
C5_FrontPinned ==
    (/\ Len(move_to_front) = 2
     /\ ~IsNone(feature_names_)
     /\ observed \ Range(move_to_front) # {})
    => /\ ~IsNone(vocabulary_)
       /\ Val(vocabulary_)[move_to_front[1]] = 0
       /\ Val(vocabulary_)[move_to_front[2]] = 1

\* C10: where prepare_template and transform both work, the index the
\* vocabulary gives a name is the name's column in feature_names_, and the
\* vocabulary has no other name.
C10_IndexIsColumn ==
    (~IsNone(feature_names_) /\ ~IsNone(vocabulary_)) =>
        LET names == Val(feature_names_)
            vocab == Val(vocabulary_)
        IN  /\ DOMAIN vocab = Range(names)
            /\ \A i \in 1..Len(names) : vocab[names[i]] = i - 1

(***************************************************************************)
(* WapitiCRF.fit, statement by statement.  The temporary files are named   *)
(* by what they hold: "train", "dev", "out" (the generated development     *)
(* output) and "template".  NameA is the default front name 'token'.       *)
(***************************************************************************)
\* bool(v) of a value that is None, a list or a path
Truthy(o) == ~IsNone(o) /\ Len(Val(o)) > 0

NameZ == <<"z">>

TrainX == << <<DictOf({NameA, NameB})>> >>
TrainY == << <<"O">> >>

CrfArgs ==
    [X                : {TrainX, <<>>},
     y                : {TrainY},
     X_dev            : {None, Some(<<>>), Some(TrainX)},
     y_dev            : {None, Some(<<>>), Some(TrainY)},
     out_dev          : {None, Some("dev.out")},
     unlink_temp      : BOOLEAN,
     feature_template : {MacroOf(NameA), MacroOf(NameZ)}]

\* what the operating system does with a file that is opened and written
IoOutcomes == {"ok", "open_fails", "write_fails"}
RunOutcomes == {"ok", "fails"}

InitCrf == /\ phase = "crf"
           /\ args \in CrfArgs
           /\ pc = "call"
           /\ files = {}
           /\ created = {}
           /\ to_unlink = <<>>
           /\ dev_fn = None
           /\ out_dev = None
           /\ exc = ""
           /\ move_to_front = <<NameA>>
           /\ feature_names_ = None
           /\ vocabulary_ = None
           /\ ret = [op |-> "__init__", ok |-> TRUE, exc |-> "", value |-> <<>>]
           /\ observed = {}
           /\ TplIdle /\ ChkIdle

\* the check of the development arguments
CrfValidate ==
    /\ phase = "crf" /\ pc = "call"
    /\ IF /\ Truthy(args.X_dev) \/ Truthy(args.y_dev) \/ Truthy(args.out_dev)
          /\ IsNone(args.X_dev) \/ IsNone(args.y_dev)
       THEN pc' = "raised" /\ exc' = "ValueError"
       ELSE pc' = "encoder" /\ exc' = exc
    /\ out_dev' = args.out_dev
    /\ UNCHANGED <<args, files, created, to_unlink, dev_fn>>
    /\ UNCHANGED <<phase, tplVars, encVars, chkVars>>

\* self.feature_encoder_.reset(); self.feature_encoder_.fit(X, y)
CrfFitEncoder ==
    /\ phase = "crf" /\ pc = "encoder"
    /\ partial_fit(None, args.X)
    /\ observed' = KeysOfX(args.X)
    /\ ret' = [op |-> "fit", ok |-> TRUE, exc |-> "", value |-> <<>>]
    /\ pc' = "train_data"
    /\ UNCHANGED <<args, files, created, to_unlink, dev_fn, out_dev, exc>>
    /\ UNCHANGED <<phase, tplVars, chkVars>>

\* _create_wapiti_data_file(X, y): zip(X, y) raises TypeError for y = None
\* before the file is opened; a failed write leaves the file behind
\* (delete=False) and returns no name
CreateDataFile(y, io) ==
    IF IsNone(y) THEN [exists |-> FALSE, exc |-> "TypeError"]
    ELSE IF io = "open_fails" THEN [exists |-> FALSE, exc |-> "IOError"]
    ELSE IF io = "write_fails" THEN [exists |-> TRUE, exc |-> "IOError"]
    ELSE [exists |-> TRUE, exc |-> ""]

\* train_fn = self._create_wapiti_data_file(X, y); to_unlink.append(train_fn)
CrfTrainData ==
    /\ phase = "crf" /\ pc = "train_data"
    /\ \E io \in IoOutcomes :
           LET r == CreateDataFile(Some(args.y), io)
           IN  /\ files' = IF r.exists THEN files \cup {"train"} ELSE files
               /\ created' = IF r.exists THEN created \cup {"train"} ELSE created
               /\ to_unlink' = IF r.exc = "" THEN Append(to_unlink, "train") ELSE to_unlink
               /\ exc' = r.exc
               /\ pc' = IF r.exc = "" THEN "dev_data" ELSE "finally"
    /\ UNCHANGED <<args, dev_fn, out_dev>>
    /\ UNCHANGED <<phase, tplVars, encVars, chkVars>>

\* if X_dev is not None: dev_fn = self._create_wapiti_data_file(X_dev, y_dev);
\* if out_dev is None: _, out_dev = tempfile.mkstemp(...); to_unlink.append(out_dev)
CrfDevData ==
    /\ phase = "crf" /\ pc = "dev_data"
    /\ IF IsNone(args.X_dev)
       THEN /\ pc' = "template"
            /\ UNCHANGED <<files, created, to_unlink, dev_fn, out_dev, exc>>
       ELSE \E io \in IoOutcomes, mk \in RunOutcomes :
                LET r      == CreateDataFile(args.y_dev, io)
                    mkstmp == r.exc = "" /\ IsNone(out_dev)
                    new    == (IF r.exists THEN {"dev"} ELSE {})
                                  \cup (IF mkstmp /\ mk = "ok" THEN {"out"} ELSE {})
                    failed == IF r.exc # "" THEN r.exc
                              ELSE IF mkstmp /\ mk = "fails" THEN "IOError" ELSE ""
                IN  /\ files' = files \cup new
                    /\ created' = created \cup new
                    /\ dev_fn' = IF r.exc = "" THEN Some("dev") ELSE dev_fn
                    /\ out_dev' = IF mkstmp /\ mk = "ok" THEN Some("out") ELSE out_dev
                    /\ to_unlink' = IF mkstmp /\ mk = "ok"
                                    THEN Append(to_unlink, "out") ELSE to_unlink
                    /\ exc' = failed
                    /\ pc' = IF failed = "" THEN "template" ELSE "finally"
    /\ UNCHANGED args
    /\ UNCHANGED <<phase, tplVars, encVars, chkVars>>

\* _create_wapiti_feature_template_file(): the file is opened, then the
\* template is compiled and written; an exception after the opening leaves
\* the file behind and returns no name
CreateTemplateFile(io) ==
    IF io = "open_fails" THEN [exists |-> FALSE, exc |-> "IOError"]
    ELSE IF ~prepare_template(args.feature_template).ok
         THEN [exists |-> TRUE, exc |-> "KeyError"]
    ELSE IF io = "write_fails" THEN [exists |-> TRUE, exc |-> "IOError"]
    ELSE [exists |-> TRUE, exc |-> ""]

\* template_fn = self._create_wapiti_feature_template_file();
\* to_unlink.append(template_fn)
CrfTemplate ==
    /\ phase = "crf" /\ pc = "template"
    /\ \E io \in IoOutcomes :
           \E r \in {CreateTemplateFile(io)} :
               /\ files' = IF r.exists THEN files \cup {"template"} ELSE files
               /\ created' = IF r.exists THEN created \cup {"template"} ELSE created
               /\ to_unlink' = IF r.exc = "" THEN Append(to_unlink, "template")
                               ELSE to_unlink
               /\ exc' = r.exc
               /\ pc' = IF r.exc = "" THEN "train" ELSE "finally"
    /\ UNCHANGED <<args, dev_fn, out_dev>>
    /\ UNCHANGED <<phase, tplVars, encVars, chkVars>>

\* self.run_wapiti(['train', ...]); the command may fail
CrfTrain ==
    /\ phase = "crf" /\ pc = "train"
    /\ \E run \in RunOutcomes :
           /\ exc' = IF run = "ok" THEN "" ELSE "CalledProcessError"
           /\ pc' = IF run # "ok" THEN "finally"
                    ELSE IF ~IsNone(dev_fn) THEN "check" ELSE "finally"
    /\ UNCHANGED <<args, files, created, to_unlink, dev_fn, out_dev>>
    /\ UNCHANGED <<phase, tplVars, encVars, chkVars>>

\* if dev_fn: self.run_wapiti(['label', ..., '--check', dev_fn, out_dev])
CrfCheck ==
    /\ phase = "crf" /\ pc = "check"
    /\ \E run \in RunOutcomes :
           exc' = IF run = "ok" THEN "" ELSE "CalledProcessError"
    /\ pc' = "finally"
    /\ UNCHANGED <<args, files, created, to_unlink, dev_fn, out_dev>>
    /\ UNCHANGED <<phase, tplVars, encVars, chkVars>>

\* finally: if self.unlink_temp_: for filename in to_unlink: os.unlink(filename)
CrfFinally ==
    /\ phase = "crf" /\ pc = "finally"
    /\ files' = IF args.unlink_temp THEN files \ Range(to_unlink) ELSE files
    /\ pc' = IF exc = "" THEN "returned" ELSE "raised"
    /\ UNCHANGED <<args, created, to_unlink, dev_fn, out_dev, exc>>
    /\ UNCHANGED <<phase, tplVars, encVars, chkVars>>

NextCrf == \/ CrfValidate \/ CrfFitEncoder \/ CrfTrainData \/ CrfDevData
           \/ CrfTemplate \/ CrfTrain \/ CrfCheck \/ CrfFinally

SpecCrf == InitCrf /\ [][NextCrf]_vars

(***************************************************************************)
(* Properties of WapitiCRF.fit (checked under SpecCrf).                    *)
(***************************************************************************)
\* C2: with unlink_temp, when fit has returned or raised, none of the
\* temporary files it created is left.
C2_TempFilesDeleted ==
    (args.unlink_temp /\ pc \in {"returned", "raised"}) => created \cap files = {}

\* C4: with exactly one of X_dev and y_dev given, fit raises ValueError
\* before it creates a file.
C4_PartialDevRaises ==
    (IsNone(args.X_dev) # IsNone(args.y_dev) /\ pc # "call")
        => (pc = "raised" /\ exc = "ValueError" /\ created = {})

(***************************************************************************)
(* WapitiChunker.transform.  The tagger (self.model) is outside the        *)
(* program: what label_sequence returns is any text.  The encoder is the   *)
(* object the chunker was built with: a WapitiFeatureEncoder, whose        *)
(* transform takes a list of documents, or an encoder whose transform      *)
(* gives one line per feature dict, which is what _get_labels joins.       *)
(***************************************************************************)
Whitespace == Spaces \cup {"\n", "\r"}

\* str.split('\n'): one more piece than there are "\n"
RECURSIVE SplitLF(_, _)
SplitLF(s, cur) ==
    IF Len(s) = 0 THEN <<cur>>
    ELSE IF Head(s) = "\n" THEN <<cur>> \o SplitLF(Tail(s), <<>>)
    ELSE SplitLF(Tail(s), Append(cur, Head(s)))

\* line.strip() is not empty
NonBlank(line) == \E i \in 1..Len(line) : line[i] \notin Whitespace

\* line.rsplit()[-1]: the last whitespace-delimited field of a non-blank line
RECURSIVE FieldStart(_, _)
FieldStart(t, i) == IF i >= 1 /\ t[i] \notin Whitespace THEN FieldStart(t, i - 1) ELSE i + 1

LastField(line) == LET t == RStrip(line) IN SubSeq(t, FieldStart(t, Len(t)), Len(t))

\* _get_labels, given the tagger's output
RECURSIVE LabelsOf(_)
LabelsOf(lines) ==
    IF Len(lines) = 0 THEN <<>>
    ELSE IF NonBlank(Head(lines)) THEN <<LastField(Head(lines))>> \o LabelsOf(Tail(lines))
    ELSE LabelsOf(Tail(lines))

_get_labels(out) == LabelsOf(SplitLF(out, <<>>))

\* zip(tokens, labels): as long as the shorter of the two
Zip(a, b) == [i \in 1..(IF Len(a) < Len(b) THEN Len(a) ELSE Len(b)) |-> <<a[i], b[i]>>]

\* transform without its assert: the pairs of zip, whatever the lengths
TransformNoAssert(enc, toks, out) ==
    IF enc = "WapitiFeatureEncoder" /\ Len(toks) > 0
    THEN [done |-> TRUE, ok |-> FALSE, exc |-> "AttributeError", pairs |-> <<>>]
    ELSE [done |-> TRUE, ok |-> TRUE, exc |-> "", pairs |-> Zip(toks, _get_labels(out))]

\* WapitiChunker.transform.  WapitiFeatureEncoder.transform, given the flat
\* list of feature dicts, takes each dict for a document and its keys for
\* dicts: it raises as soon as there is a dict.  The pairs are those handed
\* to label_encoder.group.
ChunkerTransform(enc, toks, out) ==
    IF enc = "WapitiFeatureEncoder" /\ Len(toks) > 0
    THEN [done |-> TRUE, ok |-> FALSE, exc |-> "AttributeError", pairs |-> <<>>]
    ELSE IF Len(toks) # Len(_get_labels(out))
         THEN [done |-> TRUE, ok |-> FALSE, exc |-> "AssertionError", pairs |-> <<>>]
    ELSE [done |-> TRUE, ok |-> TRUE, exc |-> "", pairs |-> Zip(toks, _get_labels(out))]

OutAlphabet == {"w", "O", " ", "\n"}

TaggerOutputs == UNION {[1..n -> OutAlphabet] : n \in 0..MaxOutLen}

\* the tokens of a document of n tokens: "1", "2", ...
TokensOf(n) == [i \in 1..n |-> IntToStr(i)]

InitChk == /\ phase = "chunker"
           /\ feature_encoder \in {"WapitiFeatureEncoder", "lines"}
           /\ tokens \in {TokensOf(n) : n \in 0..MaxTokens}
           /\ tagged \in TaggerOutputs
           /\ chunks = NotTransformed
           /\ TplIdle /\ EncIdle /\ CrfIdle

ChkTransform ==
    /\ phase = "chunker"
    /\ ~chunks.done
    /\ chunks' = ChunkerTransform(feature_encoder, tokens, tagged)
    /\ UNCHANGED <<feature_encoder, tokens, tagged>>
    /\ UNCHANGED <<phase, tplVars, encVars, crfVars>>

NextChk == ChkTransform

SpecChk == InitChk /\ [][NextChk]_vars

(***************************************************************************)
(* Properties of WapitiChunker.transform (checked under SpecChk).          *)
(***************************************************************************)
\* the lines of the tagger's output that are not blank, each by the place of
\* its first character that is not whitespace
NonBlankLineStarts ==
    {i \in 1..Len(tagged) :
        /\ tagged[i] \notin Whitespace
        /\ \A j \in 1..(i - 1) :
               (\A k \in j..(i - 1) : tagged[k] # "\n") => tagged[j] \in Whitespace}

\* C9: transform returns only when the tagger's output has as many non-blank
\* lines as there are tokens, and then it pairs every token, in order, with
\* a label; otherwise the call fails.
C9_LabelsAligned ==
    chunks.done =>
        /\ chunks.ok =>
               /\ Cardinality(NonBlankLineStarts) = Len(tokens)
               /\ Len(chunks.pairs) = Len(tokens)
               /\ \A i \in 1..Len(tokens) :
                      /\ chunks.pairs[i][1] = tokens[i]
                      /\ Len(chunks.pairs[i][2]) > 0
                      /\ \A k \in 1..Len(chunks.pairs[i][2]) :
                             chunks.pairs[i][2][k] \notin Whitespace
        /\ Cardinality(NonBlankLineStarts) # Len(tokens) => ~chunks.ok

\* the tagger gave fewer non-blank lines than there are tokens, and the
\* call failed on the assertion
C9_Witness ==
    /\ chunks.done
    /\ chunks.exc = "AssertionError"
    /\ Cardinality(NonBlankLineStarts) > 0
    /\ Cardinality(NonBlankLineStarts) < Len(tokens)

====
